---- MODULE Spec2Model ----
(***************************************************************************)
(* The UERANSIM UE operator charm (src/src/charm.py) as a state machine.   *)
(*                                                                         *)
(* One action per Juju event the charm observes (install, remove,          *)
(* config-changed, uesim-pebble-ready, start-ue, stop-ue); each action is  *)
(* the whole handler.  The handlers are written as operators over a        *)
(* "machine" record m that is threaded through the calls in program order; *)
(* a collaborator call that raises sets m.raised, and every later step of  *)
(* the invocation is then skipped, as a Python exception does.             *)
(***************************************************************************)
EXTENDS Naturals, Sequences, FiniteSets

\* ------------------------------------------------------------ constants

BASE_CONFIG_PATH == "/etc"

UE_CONFIG_FILE_NAME == "ue.yaml"

\* f"{BASE_CONFIG_PATH}/{UE_CONFIG_FILE_NAME}"
ConfigFilePath == "/etc/ue.yaml"

DEFAULT_FIELD_MANAGER == "controller"

GTP_PORT == 4997

\* self._uesim_container_name = self._uesim_service_name = "uesim"
uesim_service_name == "uesim"

\* Successful start commands counted since the last stop-ue action: the
\* counter saturates here.
MaxStarts == 2

\* ------------------------------------------------- configuration values

\* A Juju config value: absent (Python None), a str or an int.
None == [t |-> "none", s |-> "", n |-> 0]

Str(x) == [t |-> "str", s |-> x, n |-> 0]

Int(k) == [t |-> "int", s |-> "", n |-> k]

\* Truthiness that takes the integer 0 for a value: only None and the empty
\* string are falsy.
FalsyExceptZero(v) ==
    \/ v.t = "none"
    \/ v.t = "str" /\ v.s = ""

\* Python's `not v`: None, the empty string and the integer 0 are falsy.
Falsy(v) ==
    \/ v.t = "none"
    \/ v.t = "str" /\ v.s = ""
    \/ v.t = "int" /\ v.n = 0

\* The nine option names, in the order _get_invalid_configs tests them.
Fields ==
    {"gnb-address", "supi", "mcc", "mnc", "usim-key", "sd", "sst", "usim-opc", "imei"}

\* self.model.config.get(name)
ConfigGet(cfg, name) == cfg[name]

\* _get_invalid_configs: one test and one append per option, in source order.
_get_invalid_configs(cfg) ==
    LET l0 == <<>>
        l1 == IF Falsy(ConfigGet(cfg, "gnb-address")) THEN Append(l0, "gnb-address") ELSE l0
        l2 == IF Falsy(ConfigGet(cfg, "supi")) THEN Append(l1, "supi") ELSE l1
        l3 == IF Falsy(ConfigGet(cfg, "mcc")) THEN Append(l2, "mcc") ELSE l2
        l4 == IF Falsy(ConfigGet(cfg, "mnc")) THEN Append(l3, "mnc") ELSE l3
        l5 == IF Falsy(ConfigGet(cfg, "usim-key")) THEN Append(l4, "usim-key") ELSE l4
        l6 == IF Falsy(ConfigGet(cfg, "sd")) THEN Append(l5, "sd") ELSE l5
        l7 == IF Falsy(ConfigGet(cfg, "sst")) THEN Append(l6, "sst") ELSE l6
        l8 == IF Falsy(ConfigGet(cfg, "usim-opc")) THEN Append(l7, "usim-opc") ELSE l7
        l9 == IF Falsy(ConfigGet(cfg, "imei")) THEN Append(l8, "imei") ELSE l8
    IN  l9

\* ------------------------------------------------------------ rendering

\* How the template engine prints a value: a str as itself, an int in
\* decimal, None as the word None.
ToText(v) ==
    IF v.t = "str" THEN v.s
    ELSE IF v.t = "none" THEN "None"
    ELSE CASE v.n = 0 -> "0"
           [] v.n = 1 -> "1"
           [] v.n = 2 -> "2"
           [] OTHER -> "n"

\* The packaged template ue-config.yaml.j2: the text is a function of the
\* nine printed parameters and of nothing else.
Template(mcc, mnc, sd, sst, supi, usim_key, usim_opc, imei, gnb_address) ==
    <<mcc, mnc, sd, sst, supi, usim_key, usim_opc, imei, gnb_address>>

\* _render_ue_config_file applied to the nine values _configure reads.
_render_ue_config_file(cfg) ==
    Template(ToText(ConfigGet(cfg, "mcc")), ToText(ConfigGet(cfg, "mnc")),
             ToText(ConfigGet(cfg, "sd")), ToText(ConfigGet(cfg, "sst")),
             ToText(ConfigGet(cfg, "supi")), ToText(ConfigGet(cfg, "usim-key")),
             ToText(ConfigGet(cfg, "usim-opc")), ToText(ConfigGet(cfg, "imei")),
             ToText(ConfigGet(cfg, "gnb-address")))

\* ------------------------------------------------------- unit statuses

BlockedStatus(invalid_configs) ==
    [kind |-> "Blocked", message |-> "Configurations are invalid: ", list |-> invalid_configs]

WaitingStatus(message) == [kind |-> "Waiting", message |-> message, list |-> <<>>]

ActiveStatus == [kind |-> "Active", message |-> "", list |-> <<>>]

\* The status of a unit no handler has set yet.
UnknownStatus == [kind |-> "Unknown", message |-> "", list |-> <<>>]

\* ------------------------------------------------------- supervisor plan

\* The service definition of _uesim_pebble_layer.
UesimService ==
    [override |-> "replace", startup |-> "enabled", command |-> "nr-ue -c /etc/ue.yaml"]

\* _uesim_pebble_layer: the services of the layer, by name.
_uesim_pebble_layer == [services |-> [n \in {uesim_service_name} |-> UesimService]]

\* A definition of the uesim service left by another revision.
StaleService == [override |-> "replace", startup |-> "disabled", command |-> "nr-ue"]

\* A service of the container that this charm does not define.
OtherService == [override |-> "replace", startup |-> "enabled", command |-> "sleep"]

EmptyPlan == [services |-> [n \in {} |-> UesimService]]

\* add_layer that replaces the whole plan by the layer.
AddLayerReplaceAll(plan, layer) == [services |-> layer.services]

\* Container.add_layer(label, layer, combine=True): the services the layer
\* names replace the plan's; the plan's other services stay.
AddLayer(plan, layer) ==
    [services |->
        [n \in (DOMAIN plan.services) \cup (DOMAIN layer.services) |->
            IF n \in DOMAIN layer.services THEN layer.services[n] ELSE plan.services[n]]]

\* -------------------------------------------------------------- machine

VARIABLES
    config,       \* self.model.config: option name -> value
    can_connect,  \* whether the uesim container answers
    storage,      \* whether BASE_CONFIG_PATH exists in the container
    file,         \* the config file in the container: [exists, content]
    plan,         \* the supervisor's plan: [services]
    status,       \* self.unit.status
    ue_running,   \* self._stored.ue_running
    lastCmd,      \* the last start/stop command the supervisor executed
    starts,       \* start commands executed since the last stop-ue action
    unfinished,   \* a file this charm wrote has had no layer applied since
    inv           \* the last handler invocation: [handler, pre, calls, raised]

vars ==
    <<config, can_connect, storage, file, plan, status, ue_running, lastCmd,
      starts, unfinished, inv>>

NoText == <<>>

AbsentFile == [exists |-> FALSE, content |-> NoText]

FileWith(content) == [exists |-> TRUE, content |-> content]

Ok(m) == m.raised = "none"

Raise(m, f) == [m EXCEPT !.raised = f]

\* One more call in the invocation's record.
Call(m, op, target, text, combine) ==
    [m EXCEPT !.calls =
        Append(@, [op |-> op, target |-> target, text |-> text, combine |-> combine])]

\* logger.info(message)
LogInfo(m, message) == IF Ok(m) THEN Call(m, "log", message, NoText, FALSE) ELSE m

\* Container.can_connect(): never raises.
ContainerCanConnect(m) == IF Ok(m) THEN Call(m, "can_connect", "uesim", NoText, FALSE) ELSE m

\* Container.exists(path)
ContainerExists(m, path) == IF Ok(m) THEN Call(m, "exists", path, NoText, FALSE) ELSE m

\* Container.pull(path)
ContainerPull(m, path) == IF Ok(m) THEN Call(m, "pull", path, NoText, FALSE) ELSE m

\* Container.push(source, path)
ContainerPush(m, e, content, path) ==
    IF ~Ok(m) THEN m
    ELSE LET m1 == Call(m, "push", path, content, FALSE)
         IN  IF e.fault = "push" THEN Raise(m1, "push")
             ELSE [m1 EXCEPT !.file = FileWith(content)]

\* Container.get_plan()
ContainerGetPlan(m) == IF Ok(m) THEN Call(m, "get_plan", "uesim", NoText, FALSE) ELSE m

\* Container.add_layer(label, layer, combine=True)
ContainerAddLayer(m, e, label, layer) ==
    IF ~Ok(m) THEN m
    ELSE LET m1 == Call(m, "add_layer", label, NoText, TRUE)
         IN  IF e.fault = "add_layer" THEN Raise(m1, "add_layer")
             ELSE [m1 EXCEPT !.plan = AddLayer(m.plan, layer)]

\* Container.restart(service)
ContainerRestart(m, e, service) ==
    IF ~Ok(m) THEN m
    ELSE LET m1 == Call(m, "restart", service, NoText, FALSE)
         IN  IF e.fault = "restart" THEN Raise(m1, "restart") ELSE m1

\* Container.start(service)
ContainerStart(m, e, service) ==
    IF ~Ok(m) THEN m
    ELSE LET m1 == Call(m, "start", service, NoText, FALSE)
         IN  IF e.fault = "start" THEN Raise(m1, "start")
             ELSE [m1 EXCEPT !.lastCmd = "start"]

\* Container.stop(service)
ContainerStop(m, e, service) ==
    IF ~Ok(m) THEN m
    ELSE LET m1 == Call(m, "stop", service, NoText, FALSE)
         IN  IF e.fault = "stop" THEN Raise(m1, "stop")
             ELSE [m1 EXCEPT !.lastCmd = "stop"]

\* The call of the template engine made by _render_ue_config_file.
RenderCall(m, e) ==
    IF ~Ok(m) THEN m
    ELSE LET m1 == Call(m, "render", "ue-config.yaml.j2", NoText, FALSE)
         IN  IF e.fault = "render" THEN Raise(m1, "render") ELSE m1

\* -------------------------------------------------------------- handlers

\* _write_config_file that pushes no text.
WriteConfigFileEmpty(m, e, content) ==
    LogInfo(ContainerPush(m, e, NoText, ConfigFilePath), "Config file written /etc/ue.yaml")

\* _write_config_file
_write_config_file(m, e, content) ==
    LogInfo(ContainerPush(m, e, content, ConfigFilePath), "Config file written /etc/ue.yaml")

\* The comparison of the pulled file object itself, not of what read()
\* returns, with the text: never equal.
ContentMatchesComparesHandle(f, content) ==
    IF ~f.exists THEN FALSE
    ELSE FALSE

\* _config_file_content_matches: the value it returns.
_config_file_content_matches(f, content) ==
    IF ~f.exists THEN FALSE
    ELSE IF f.content # content THEN FALSE
    ELSE TRUE

\* _config_file_content_matches: the calls it makes.
ConfigFileProbe(m) ==
    LET m1 == ContainerExists(m, ConfigFilePath)
    IN  IF m.file.exists THEN ContainerPull(m1, ConfigFilePath) ELSE m1

\* The workload step that restarts whatever the run flag says.
ConfigureWorkloadAlwaysRestart(m, e, restart) ==
    LET m1 == ContainerGetPlan(m)
        layer == _uesim_pebble_layer
    IN  IF m.plan.services # layer.services \/ restart
        THEN ContainerRestart(ContainerAddLayer(m1, e, "uesim", layer), e, uesim_service_name)
        ELSE m1

\* The workload step that records the service as running once it has
\* restarted it.
ConfigureWorkloadMarksRunning(m, e, restart) ==
    LET m1 == ContainerGetPlan(m)
        layer == _uesim_pebble_layer
    IN  IF m.plan.services # layer.services \/ restart
        THEN LET m2 == ContainerRestart(ContainerAddLayer(m1, e, "uesim", layer), e,
                                        uesim_service_name)
             IN  IF Ok(m2) THEN [m2 EXCEPT !.ue_running = TRUE] ELSE m2
        ELSE m1

\* _configure_uesim_workload
_configure_uesim_workload(m, e, restart) ==
    LET m1 == ContainerGetPlan(m)
        layer == _uesim_pebble_layer
    IN  IF m.plan.services # layer.services \/ restart
        THEN LET m2 == ContainerAddLayer(m1, e, "uesim", layer)
             IN  IF m2.ue_running
                 THEN ContainerRestart(m2, e, uesim_service_name)
                 ELSE m2
        ELSE m1

\* _configure with the layer applied before the file is written.
ConfigureApplyFirst(m, e) ==
    LET invalid_configs == _get_invalid_configs(e.config)
        m1 == ContainerCanConnect(m)
        m2 == ContainerExists(m1, BASE_CONFIG_PATH)
    IN  IF invalid_configs # <<>> THEN [m EXCEPT !.status = BlockedStatus(invalid_configs)]
        ELSE IF ~e.can_connect
        THEN [m1 EXCEPT !.status = WaitingStatus("Waiting for container to be ready")]
        ELSE IF ~e.storage
        THEN [m2 EXCEPT !.status = WaitingStatus("Waiting for storage to be attached")]
        ELSE LET content == _render_ue_config_file(e.config)
                 m3 == ConfigFileProbe(RenderCall(m2, e))
                 m4 == IF Ok(m3) /\ ~_config_file_content_matches(m3.file, content)
                       THEN _write_config_file(_configure_uesim_workload(m3, e, TRUE), e, content)
                       ELSE m3
             IN  IF Ok(m4) THEN [m4 EXCEPT !.status = ActiveStatus] ELSE m4

\* _configure without the test of the storage path.
ConfigureNoStorageCheck(m, e) ==
    LET invalid_configs == _get_invalid_configs(e.config)
        m1 == ContainerCanConnect(m)
    IN  IF invalid_configs # <<>> THEN [m EXCEPT !.status = BlockedStatus(invalid_configs)]
        ELSE IF ~e.can_connect
        THEN [m1 EXCEPT !.status = WaitingStatus("Waiting for container to be ready")]
        ELSE LET content == _render_ue_config_file(e.config)
                 m3 == ConfigFileProbe(RenderCall(m1, e))
                 m4 == IF Ok(m3) /\ ~_config_file_content_matches(m3.file, content)
                       THEN _configure_uesim_workload(_write_config_file(m3, e, content), e, TRUE)
                       ELSE m3
             IN  IF Ok(m4) THEN [m4 EXCEPT !.status = ActiveStatus] ELSE m4

\* _configure that sets ActiveStatus although a call raised.
ConfigureSwallow(m, e) ==
    LET invalid_configs == _get_invalid_configs(e.config)
        m1 == ContainerCanConnect(m)
        m2 == ContainerExists(m1, BASE_CONFIG_PATH)
    IN  IF invalid_configs # <<>> THEN [m EXCEPT !.status = BlockedStatus(invalid_configs)]
        ELSE IF ~e.can_connect
        THEN [m1 EXCEPT !.status = WaitingStatus("Waiting for container to be ready")]
        ELSE IF ~e.storage
        THEN [m2 EXCEPT !.status = WaitingStatus("Waiting for storage to be attached")]
        ELSE LET content == _render_ue_config_file(e.config)
                 m3 == ConfigFileProbe(RenderCall(m2, e))
                 m4 == IF Ok(m3) /\ ~_config_file_content_matches(m3.file, content)
                       THEN _configure_uesim_workload(_write_config_file(m3, e, content), e, TRUE)
                       ELSE m3
             IN  [m4 EXCEPT !.status = ActiveStatus]

\* _configure that goes on to the container when the configuration is invalid.
ConfigureNoReturn(m, e) ==
    LET invalid_configs == _get_invalid_configs(e.config)
        m0 == IF invalid_configs # <<>>
              THEN [m EXCEPT !.status = BlockedStatus(invalid_configs)]
              ELSE m
        m1 == ContainerCanConnect(m0)
        m2 == ContainerExists(m1, BASE_CONFIG_PATH)
    IN  IF ~e.can_connect
        THEN [m1 EXCEPT !.status = WaitingStatus("Waiting for container to be ready")]
        ELSE IF ~e.storage
        THEN [m2 EXCEPT !.status = WaitingStatus("Waiting for storage to be attached")]
        ELSE LET content == _render_ue_config_file(e.config)
                 m3 == ConfigFileProbe(RenderCall(m2, e))
                 m4 == IF Ok(m3) /\ ~_config_file_content_matches(m3.file, content)
                       THEN _configure_uesim_workload(_write_config_file(m3, e, content), e, TRUE)
                       ELSE m3
             IN  IF Ok(m4) /\ invalid_configs = <<>>
                 THEN [m4 EXCEPT !.status = ActiveStatus] ELSE m4

\* _configure with the last assignment inside the `if`: ActiveStatus is set
\* only when the file was written.
ConfigureActiveOnlyOnWrite(m, e) ==
    LET invalid_configs == _get_invalid_configs(e.config)
        m1 == ContainerCanConnect(m)
        m2 == ContainerExists(m1, BASE_CONFIG_PATH)
    IN  IF invalid_configs # <<>> THEN [m EXCEPT !.status = BlockedStatus(invalid_configs)]
        ELSE IF ~e.can_connect
        THEN [m1 EXCEPT !.status = WaitingStatus("Waiting for container to be ready")]
        ELSE IF ~e.storage
        THEN [m2 EXCEPT !.status = WaitingStatus("Waiting for storage to be attached")]
        ELSE LET content == _render_ue_config_file(e.config)
                 m3 == ConfigFileProbe(RenderCall(m2, e))
             IN  IF Ok(m3) /\ ~_config_file_content_matches(m3.file, content)
                 THEN LET m4 == _configure_uesim_workload(
                                    _write_config_file(m3, e, content), e, TRUE)
                      IN  IF Ok(m4) THEN [m4 EXCEPT !.status = ActiveStatus] ELSE m4
                 ELSE m3

\* _configure
_configure(m, e) ==
    LET invalid_configs == _get_invalid_configs(e.config)
        m1 == ContainerCanConnect(m)
        m2 == ContainerExists(m1, BASE_CONFIG_PATH)
    IN  IF invalid_configs # <<>> THEN [m EXCEPT !.status = BlockedStatus(invalid_configs)]
        ELSE IF ~e.can_connect
        THEN [m1 EXCEPT !.status = WaitingStatus("Waiting for container to be ready")]
        ELSE IF ~e.storage
        THEN [m2 EXCEPT !.status = WaitingStatus("Waiting for storage to be attached")]
        ELSE LET content == _render_ue_config_file(e.config)
                 m3 == ConfigFileProbe(RenderCall(m2, e))
                 m4 == IF Ok(m3) /\ ~_config_file_content_matches(m3.file, content)
                       THEN _configure_uesim_workload(_write_config_file(m3, e, content), e, TRUE)
                       ELSE m3
             IN  IF Ok(m4) THEN [m4 EXCEPT !.status = ActiveStatus] ELSE m4

\* _on_start_ue_action that starts the service whatever the flag says.
OnStartAlways(m, e) ==
    LET m1 == _configure(LogInfo(m, "Starting UE service"), e)
        m2 == LogInfo(ContainerStart(m1, e, uesim_service_name), "Started UE service")
    IN  IF Ok(m2) THEN [m2 EXCEPT !.ue_running = TRUE] ELSE m2

\* _on_start_ue_action that reports the start outside the `if`.
OnStartLogsAlways(m, e) ==
    LET m1 == _configure(LogInfo(m, "Starting UE service"), e)
        m2 == ContainerStart(m1, e, uesim_service_name)
    IN  IF Ok(m1) /\ ~m1.ue_running
        THEN IF Ok(m2)
             THEN [LogInfo(m2, "Started UE service") EXCEPT !.ue_running = TRUE]
             ELSE m2
        ELSE LogInfo(m1, "Started UE service")

\* _on_start_ue_action that starts the service only on an Active unit.
OnStartOnlyWhenActive(m, e) ==
    LET m1 == _configure(LogInfo(m, "Starting UE service"), e)
        m2 == LogInfo(ContainerStart(m1, e, uesim_service_name), "Started UE service")
    IN  IF Ok(m1) /\ ~m1.ue_running /\ m1.status.kind = "Active"
        THEN IF Ok(m2) THEN [m2 EXCEPT !.ue_running = TRUE] ELSE m2
        ELSE m1

\* _on_start_ue_action that sets the flag before it issues the command.
OnStartFlagFirst(m, e) ==
    LET m1 == _configure(LogInfo(m, "Starting UE service"), e)
        m2 == IF Ok(m1) THEN [m1 EXCEPT !.ue_running = TRUE] ELSE m1
    IN  IF Ok(m1) /\ ~m1.ue_running
        THEN LogInfo(ContainerStart(m2, e, uesim_service_name), "Started UE service")
        ELSE m1

\* _on_start_ue_action
_on_start_ue_action(m, e) ==
    LET m1 == _configure(LogInfo(m, "Starting UE service"), e)
        m2 == LogInfo(ContainerStart(m1, e, uesim_service_name), "Started UE service")
    IN  IF Ok(m1) /\ ~m1.ue_running
        THEN IF Ok(m2) THEN [m2 EXCEPT !.ue_running = TRUE] ELSE m2
        ELSE m1

\* _on_stop_ue_action that leaves the flag set after the stop command.
OnStopKeepFlag(m, e) ==
    LET m1 == _configure(LogInfo(m, "Stopping UE service"), e)
        m2 == LogInfo(ContainerStop(m1, e, uesim_service_name), "Stopped UE service")
    IN  IF Ok(m1) /\ m1.ue_running THEN m2 ELSE m1

\* _on_stop_ue_action
_on_stop_ue_action(m, e) ==
    LET m1 == _configure(LogInfo(m, "Stopping UE service"), e)
        m2 == LogInfo(ContainerStop(m1, e, uesim_service_name), "Stopped UE service")
    IN  IF Ok(m1) /\ m1.ue_running
        THEN IF Ok(m2) THEN [m2 EXCEPT !.ue_running = FALSE] ELSE m2
        ELSE m1

\* _on_install: Client().apply(Service(...), field_manager=DEFAULT_FIELD_MANAGER)
_on_install(m, e) ==
    LET m1 == Call(m, "apply", "Service", NoText, FALSE)
    IN  IF e.fault = "apply" THEN Raise(m1, "apply")
        ELSE LogInfo(m1, "Created/asserted existence of UE service")

\* _on_remove: Client().delete(Service, namespace, name)
_on_remove(m, e) ==
    LET m1 == Call(m, "delete", "Service", NoText, FALSE)
    IN  IF e.fault = "delete" THEN Raise(m1, "delete")
        ELSE LogInfo(m1, "Removed external gNB service")

\* --------------------------------------------------------------- inputs

\* The configuration of the scenario of the specification.
ConfigA ==
    [f \in Fields |->
        CASE f = "gnb-address" -> Str("10.0.0.1")
          [] f = "supi" -> Str("imsi-001010000000001")
          [] f = "mcc" -> Str("001")
          [] f = "mnc" -> Str("01")
          [] f = "usim-key" -> Str("key")
          [] f = "sd" -> Str("102030")
          [] f = "sst" -> Int(1)
          [] f = "usim-opc" -> Str("opc")
          [] f = "imei" -> Str("356938035643803")]

\* The same with another gNB address.
ConfigB == [ConfigA EXCEPT !["gnb-address"] = Str("10.0.0.2")]

\* The same with sst = 0.
ConfigSstZero == [ConfigA EXCEPT !["sst"] = Int(0)]

\* The configurations the operator switches between.
Configs == {ConfigA, ConfigB, ConfigSstZero}

\* The values one option can take: absent, falsy, or a value.
OptionValues(f) ==
    IF f = "sst" THEN {None, Int(0), Int(1)} ELSE {None, Str(""), Str("x")}

\* Every assignment of the nine options.
AllConfigs == {c \in [Fields -> {None, Int(0), Int(1), Str(""), Str("x")}] :
                  \A f \in Fields : c[f] \in OptionValues(f)}

\* A file the charm did not write.
ForeignFile == FileWith(<<"garbage">>)

\* Plans the container can be found with before the charm's layer is added.
StalePlan == [services |-> [n \in {uesim_service_name} |-> StaleService]]

OtherPlan == [services |-> [n \in {"other"} |-> OtherService]]

EnvPlans == {EmptyPlan, StalePlan, OtherPlan}

\* ------------------------------------------------------------ invocation

\* The handlers whose first step is _configure.
Reconcilers == {"config_changed", "uesim_pebble_ready", "start_ue", "stop_ue"}

\* The faults that can end the _configure step.
ReconcileFaults == {"render", "push", "add_layer", "restart"}

HasOp(calls, op) == \E i \in 1..Len(calls) : calls[i].op = op

NoPre ==
    [status |-> UnknownStatus, file |-> AbsentFile, plan |-> EmptyPlan,
     ue_running |-> FALSE, prev |-> "none"]

NoInv == [handler |-> "none", pre |-> NoPre, calls |-> <<>>, raised |-> "none"]

\* What the invocation before this one was, when no change of the
\* environment came between: a reconciliation that set ActiveStatus, with or
\* without a write, or anything else.
PrevSummary ==
    IF inv.handler \in Reconcilers /\ inv.raised \notin ReconcileFaults
       /\ status.kind = "Active"
    THEN IF HasOp(inv.calls, "push") THEN "active_wrote" ELSE "active"
    ELSE "other"

\* The unit as a handler finds it.
Machine ==
    [status |-> status, file |-> file, plan |-> plan, ue_running |-> ue_running,
     lastCmd |-> lastCmd, calls |-> <<>>, raised |-> "none"]

\* What the handler reads of its surroundings, and the call that raises in
\* this invocation, if any.
Surroundings(f) ==
    [config |-> config, can_connect |-> can_connect, storage |-> storage, fault |-> f]

\* The end of the dispatch of event h: the unit's state is as the handler
\* left it, whether it returned or raised.
Commit(h, after) ==
    \E m \in {after} :
    LET started == HasOp(m.calls, "start") /\ m.raised # "start"
        pushed == HasOp(m.calls, "push") /\ m.raised # "push"
        applied == HasOp(m.calls, "add_layer") /\ m.raised \notin {"add_layer", "restart"}
    IN  /\ status' = m.status
        /\ file' = m.file
        /\ plan' = m.plan
        /\ ue_running' = m.ue_running
        /\ lastCmd' = m.lastCmd
        /\ starts' = IF h = "stop_ue" THEN 0
                     ELSE IF started /\ starts < MaxStarts THEN starts + 1
                     ELSE starts
        /\ unfinished' = IF applied THEN FALSE
                         ELSE IF pushed THEN TRUE
                         ELSE unfinished
        /\ inv' = [handler |-> h,
                   pre |-> [status |-> status, file |-> file, plan |-> plan,
                            ue_running |-> ue_running, prev |-> PrevSummary],
                   calls |-> m.calls, raised |-> m.raised]

\* self.framework.observe(self.on.install, self._on_install)
Install ==
    \E f \in {"none", "apply"} :
        /\ Commit("install", _on_install(Machine, Surroundings(f)))
        /\ UNCHANGED <<config, can_connect, storage>>

\* self.framework.observe(self.on.remove, self._on_remove)
Remove ==
    \E f \in {"none", "delete"} :
        /\ Commit("remove", _on_remove(Machine, Surroundings(f)))
        /\ UNCHANGED <<config, can_connect, storage>>

\* self.framework.observe(self.on.config_changed, self._configure)
ConfigChanged ==
    \E f \in {"none"} \cup ReconcileFaults :
        /\ Commit("config_changed", _configure(Machine, Surroundings(f)))
        /\ UNCHANGED <<config, can_connect, storage>>

\* self.framework.observe(self.on.uesim_pebble_ready, self._configure)
UesimPebbleReady ==
    \E f \in {"none"} \cup ReconcileFaults :
        /\ Commit("uesim_pebble_ready", _configure(Machine, Surroundings(f)))
        /\ UNCHANGED <<config, can_connect, storage>>

\* self.framework.observe(self.on.start_ue_action, self._on_start_ue_action)
StartUeAction ==
    \E f \in {"none", "start"} \cup ReconcileFaults :
        /\ Commit("start_ue", _on_start_ue_action(Machine, Surroundings(f)))
        /\ UNCHANGED <<config, can_connect, storage>>

\* self.framework.observe(self.on.stop_ue_action, self._on_stop_ue_action)
StopUeAction ==
    \E f \in {"none", "stop"} \cup ReconcileFaults :
        /\ Commit("stop_ue", _on_stop_ue_action(Machine, Surroundings(f)))
        /\ UNCHANGED <<config, can_connect, storage>>

\* ----------------------------------------------------------- environment

EnvUnchanged == UNCHANGED <<status, ue_running, lastCmd, starts, unfinished>>

\* The operator sets options (juju config).
SetConfig ==
    /\ \E c \in Configs \ {config} : config' = c
    /\ inv' = NoInv
    /\ EnvUnchanged
    /\ UNCHANGED <<can_connect, storage, file, plan>>

\* The container comes up or goes away.
ContainerFlips ==
    /\ can_connect' = ~can_connect
    /\ inv' = NoInv
    /\ EnvUnchanged
    /\ UNCHANGED <<config, storage, file, plan>>

\* The storage is attached or detached; a detached storage holds no file.
StorageFlips ==
    /\ storage' = ~storage
    /\ file' = IF storage THEN AbsentFile ELSE file
    /\ inv' = NoInv
    /\ EnvUnchanged
    /\ UNCHANGED <<config, can_connect, plan>>

\* The file is removed or overwritten from outside the charm.
FileChanges ==
    /\ storage
    /\ \E g \in {AbsentFile, ForeignFile} \ {file} : file' = g
    /\ inv' = NoInv
    /\ EnvUnchanged
    /\ UNCHANGED <<config, can_connect, storage, plan>>

\* The supervisor's plan is reset or changed from outside the charm.
PlanChanges ==
    /\ \E p \in EnvPlans \ {plan} : plan' = p
    /\ inv' = NoInv
    /\ EnvUnchanged
    /\ UNCHANGED <<config, can_connect, storage, file>>

\* ---------------------------------------------------------- specification

\* The unit after construction: set_default(ue_running=False), no status set.
Init ==
    /\ config \in Configs
    /\ can_connect = FALSE
    /\ storage = FALSE
    /\ file = AbsentFile
    /\ plan = EmptyPlan
    /\ status = UnknownStatus
    /\ ue_running = FALSE
    /\ lastCmd = "none"
    /\ starts = 0
    /\ unfinished = FALSE
    /\ inv = NoInv

Next ==
    \/ Install
    \/ Remove
    \/ ConfigChanged
    \/ UesimPebbleReady
    \/ StartUeAction
    \/ StopUeAction
    \/ SetConfig
    \/ ContainerFlips
    \/ StorageFlips
    \/ FileChanges
    \/ PlanChanges

Spec == Init /\ [][Next]_vars

\* States of the container, the storage and the unit that Spec reaches, one
\* per row: the validator is run on every configuration in each of them.
EnvSamples ==
    { [can_connect |-> FALSE, storage |-> FALSE, file |-> AbsentFile, plan |-> EmptyPlan,
       ue_running |-> FALSE, status |-> UnknownStatus],
      [can_connect |-> TRUE, storage |-> TRUE, file |-> ForeignFile, plan |-> StalePlan,
       ue_running |-> TRUE, status |-> ActiveStatus],
      [can_connect |-> TRUE, storage |-> FALSE, file |-> AbsentFile, plan |-> OtherPlan,
       ue_running |-> FALSE,
       status |-> WaitingStatus("Waiting for storage to be attached")],
      [can_connect |-> FALSE, storage |-> TRUE,
       file |-> FileWith(_render_ue_config_file(ConfigA)),
       plan |-> AddLayer(OtherPlan, _uesim_pebble_layer),
       ue_running |-> TRUE, status |-> ActiveStatus] }

\* Any configuration, in one of the sampled states.
InitAnyConfig ==
    /\ config \in AllConfigs
    /\ \E s \in EnvSamples :
        /\ can_connect = s.can_connect
        /\ storage = s.storage
        /\ file = s.file
        /\ plan = s.plan
        /\ status = s.status
        /\ ue_running = s.ue_running
        /\ lastCmd = IF s.ue_running THEN "start" ELSE "none"
        /\ starts = IF s.ue_running THEN 1 ELSE 0
    /\ unfinished = FALSE
    /\ inv = NoInv

NextReconcile ==
    \/ ConfigChanged
    \/ UesimPebbleReady

\* The reconciliation handlers run on every assignment of the nine options.
SpecAnyConfig == InitAnyConfig /\ [][NextReconcile]_vars

\* ---------------------------------------------------------------- claims

\* The order in which a Blocked status names the missing options.
FieldOrder ==
    <<"gnb-address", "supi", "mcc", "mnc", "usim-key", "sd", "sst", "usim-opc", "imei">>

\* An option is missing when it is absent, the empty string, or zero.
Missing(v) == v = None \/ v = Str("") \/ v = Int(0)

MissingFields(cfg) == {f \in Fields : Missing(cfg[f])}

\* FieldOrder restricted to the missing options.
MissingInOrder(cfg) ==
    LET IsMissing(f) == f \in MissingFields(cfg)
    IN  SelectSeq(FieldOrder, IsMissing)

Reconciled == inv.handler \in Reconcilers

\* C1: a reconciliation of a configuration with at least one missing option
\* sets Blocked("Configurations are invalid: <list>"), the list being exactly
\* the missing option names in the fixed order, and issues no push, no
\* add_layer and no restart; the file and the plan are as they were.
C1_InvalidConfigBlocks ==
    (Reconciled /\ MissingFields(config) # {}) =>
        /\ status.kind = "Blocked"
        /\ status.message = "Configurations are invalid: "
        /\ status.list = MissingInOrder(config)
        /\ ~HasOp(inv.calls, "push")
        /\ ~HasOp(inv.calls, "add_layer")
        /\ ~HasOp(inv.calls, "restart")
        /\ file = inv.pre.file
        /\ plan = inv.pre.plan

\* C1 witness: sst = 0, an empty supi and an absent imei, in a reachable
\* container with storage, a foreign file and a stale plan.
C1_Witness ==
    /\ inv.handler = "config_changed"
    /\ config["sst"] = Int(0)
    /\ config["supi"] = Str("")
    /\ config["imei"] = None
    /\ MissingFields(config) = {"sst", "supi", "imei"}
    /\ can_connect /\ storage
    /\ inv.pre.file = ForeignFile
    /\ inv.pre.plan = StalePlan
    /\ status = BlockedStatus(<<"supi", "sst", "imei">>)
    /\ inv.calls = <<>>

\* The configuration read by the last invocation has all nine options.
Valid == MissingFields(config) = {}

\* The text the last invocation rendered.
Rendered == _render_ue_config_file(config)

\* The file the last invocation found holds exactly the rendered text.
FoundMatching == inv.pre.file.exists /\ inv.pre.file.content = Rendered

\* The last invocation's _configure step got as far as comparing the file.
Compared == Reconciled /\ Valid /\ can_connect /\ storage

\* The last invocation's _configure step returned (no call of it raised).
ReconcileReturned == Reconciled /\ inv.raised \notin ReconcileFaults

NoWriteApplyRestart ==
    /\ ~HasOp(inv.calls, "push")
    /\ ~HasOp(inv.calls, "add_layer")
    /\ ~HasOp(inv.calls, "restart")

\* C2: with all options set, a reconciliation that finds the container
\* unreachable sets Waiting("Waiting for container to be ready"), one that
\* finds it reachable without the storage path sets Waiting("Waiting for
\* storage to be attached"); neither raises, and neither issues a push, an
\* add_layer or a restart.
C2_NotReadyWaits ==
    (Reconciled /\ Valid /\ ~(can_connect /\ storage)) =>
        /\ status = IF ~can_connect
                    THEN WaitingStatus("Waiting for container to be ready")
                    ELSE WaitingStatus("Waiting for storage to be attached")
        /\ inv.raised \notin ReconcileFaults
        /\ NoWriteApplyRestart
        /\ file = inv.pre.file
        /\ plan = inv.pre.plan

\* C2 witness: a unit that was Active finds its container reachable and the
\* storage gone.
C2_Witness ==
    /\ inv.handler = "uesim_pebble_ready"
    /\ Valid /\ can_connect /\ ~storage
    /\ inv.pre.status = ActiveStatus
    /\ status = WaitingStatus("Waiting for storage to be attached")
    /\ inv.raised = "none"

\* The pushes and add_layers of a call record, in the order they were made.
WritesAndApplies(calls) ==
    LET Changes(c) == c.op \in {"push", "add_layer"}
    IN  SelectSeq(calls, Changes)

\* C3: when the file is absent or differs from the rendered text, a
\* reconciliation that returns has made exactly one push, of the rendered
\* text to /etc/ue.yaml, and after it exactly one add_layer with combine,
\* whatever the plan was, and has set Active.
C3_MismatchWritesThenApplies ==
    (Compared /\ ReconcileReturned /\ ~FoundMatching) =>
        LET w == WritesAndApplies(inv.calls)
        IN  /\ Len(w) = 2
            /\ w[1] = [op |-> "push", target |-> "/etc/ue.yaml", text |-> Rendered,
                       combine |-> FALSE]
            /\ w[2] = [op |-> "add_layer", target |-> "uesim", text |-> NoText,
                       combine |-> TRUE]
            /\ file = FileWith(Rendered)
            /\ plan.services["uesim"] = UesimService
            /\ status = ActiveStatus

\* C3 witness: the plan already equals the layer, the file holds the text of
\* another configuration, and the layer is applied again after the write.
C3_Witness ==
    /\ inv.handler = "config_changed"
    /\ config = ConfigB
    /\ inv.pre.file = FileWith(_render_ue_config_file(ConfigA))
    /\ inv.pre.plan.services = _uesim_pebble_layer.services
    /\ inv.raised = "none"
    /\ Len(WritesAndApplies(inv.calls)) = 2
    /\ status = ActiveStatus

\* C4: a reconciliation that finds the file equal to the rendered text issues
\* no push and no restart; and the reconciliation that directly follows one
\* that set Active (same configuration, nothing changed in between) issues no
\* push and no restart and leaves the status Active.
C4_Idempotent ==
    /\ (Compared /\ FoundMatching) =>
            /\ ~HasOp(inv.calls, "push")
            /\ ~HasOp(inv.calls, "restart")
            /\ file = inv.pre.file
    /\ (Reconciled /\ inv.pre.prev \in {"active_wrote", "active"}) =>
            /\ ~HasOp(inv.calls, "push")
            /\ ~HasOp(inv.calls, "restart")
            /\ status = ActiveStatus

\* C4 witness: the second of two reconciliations, the first of which wrote
\* the file and set Active, with the service marked as running.
C4_Witness ==
    /\ inv.handler = "config_changed"
    /\ inv.pre.prev = "active_wrote"
    /\ inv.pre.ue_running
    /\ FoundMatching
    /\ inv.raised = "none"
    /\ NoWriteApplyRestart
    /\ status = ActiveStatus

\* C5: when the file equals the rendered text and the plan's services differ
\* from the layer's, a reconciliation applies the layer with combine, and
\* restarts the service exactly when the run flag is set.
C5_PlanDriftReapplies ==
    (Compared /\ ReconcileReturned /\ FoundMatching
     /\ inv.pre.plan.services # _uesim_pebble_layer.services) =>
        /\ \E i \in 1..Len(inv.calls) :
               inv.calls[i].op = "add_layer" /\ inv.calls[i].combine
        /\ HasOp(inv.calls, "restart") <=> inv.pre.ue_running

\* The calls a _configure step can make on the container and the renderer.
ReconcileOps ==
    {"can_connect", "exists", "render", "pull", "push", "get_plan", "add_layer", "restart"}

\* Every call of the _configure step comes before the first command cmd.
ReconcileBefore(calls, cmd) ==
    \A i, j \in 1..Len(calls) :
        (calls[i].op = cmd /\ calls[j].op \in ReconcileOps) => j < i

\* The commands cmd of a call record.
Commands(calls, cmd) ==
    LET IsCmd(c) == c.op = cmd
    IN  SelectSeq(calls, IsCmd)

StartCommand == [op |-> "start", target |-> "uesim", text |-> NoText, combine |-> FALSE]

StopCommand == [op |-> "stop", target |-> "uesim", text |-> NoText, combine |-> FALSE]

\* C6: a start-ue action that returns has run the reconciliation first; with
\* the flag false it has issued exactly one start of uesim and set the flag;
\* with the flag true it has issued no start and the flag is still true.  No
\* second start command is executed before a stop-ue action.
C6_StartOnce ==
    /\ (inv.handler = "start_ue" /\ inv.raised = "none") =>
            /\ status.kind \in {"Blocked", "Waiting", "Active"}
            /\ ReconcileBefore(inv.calls, "start")
            /\ Commands(inv.calls, "start") =
                   IF inv.pre.ue_running THEN <<>> ELSE <<StartCommand>>
            /\ ue_running
    /\ starts <= 1

\* C6 witness: a start-ue that finds the flag set by an earlier start-ue and
\* issues no command.
C6_Witness ==
    /\ inv.handler = "start_ue"
    /\ inv.raised = "none"
    /\ inv.pre.ue_running
    /\ starts = 1
    /\ ~HasOp(inv.calls, "start")
    /\ ue_running

\* C7: a stop-ue action that returns has run the reconciliation first; with
\* the flag true it has issued exactly one stop of uesim and cleared the
\* flag; with the flag false it has issued no stop and the flag is still
\* false.
C7_StopOnce ==
    (inv.handler = "stop_ue" /\ inv.raised = "none") =>
        /\ status.kind \in {"Blocked", "Waiting", "Active"}
        /\ ReconcileBefore(inv.calls, "stop")
        /\ Commands(inv.calls, "stop") =
               IF inv.pre.ue_running THEN <<StopCommand>> ELSE <<>>
        /\ ~ue_running

\* C7 witness: a stop-ue that finds the flag set, after a reconciliation
\* that wrote the file.
C7_Witness ==
    /\ inv.handler = "stop_ue"
    /\ inv.raised = "none"
    /\ inv.pre.ue_running
    /\ HasOp(inv.calls, "push")
    /\ Commands(inv.calls, "stop") = <<StopCommand>>
    /\ ~ue_running

\* C8: the run flag starts false, and a step changes it only if it is a
\* start-ue or a stop-ue action: config-changed, pebble-ready, install and
\* remove leave it as it was, whatever their outcome.
C8_FlagOwnedByActions ==
    /\ ue_running = FALSE
    /\ [][ue_running' # ue_running => inv'.handler \in {"start_ue", "stop_ue"}]_vars

\* C8 witness: a config-changed that restarted the running service and set
\* Active, the flag still set.
C8_Witness ==
    /\ inv.handler = "config_changed"
    /\ inv.pre.ue_running
    /\ HasOp(inv.calls, "restart")
    /\ status = ActiveStatus
    /\ ue_running

\* C9: when rendering or the push raises, the invocation ends raised with no
\* add_layer and no restart issued and the status as before; when add_layer
\* raises the status is as before; when the _configure step of a start-ue or
\* stop-ue raises, no start or stop is issued and the flag is unchanged.
C9_FaultCommitsNothing ==
    /\ (Reconciled /\ inv.raised \in {"render", "push"}) =>
            /\ ~HasOp(inv.calls, "add_layer")
            /\ ~HasOp(inv.calls, "restart")
            /\ inv.calls[Len(inv.calls)].op = inv.raised
            /\ plan = inv.pre.plan
            /\ status = inv.pre.status
    /\ (Reconciled /\ inv.raised = "add_layer") =>
            /\ ~HasOp(inv.calls, "restart")
            /\ plan = inv.pre.plan
            /\ status = inv.pre.status
    /\ (inv.handler \in {"start_ue", "stop_ue"} /\ inv.raised \in ReconcileFaults) =>
            /\ ~HasOp(inv.calls, "start")
            /\ ~HasOp(inv.calls, "stop")
            /\ ue_running = inv.pre.ue_running

\* C9 witness: the push of a start-ue action raises on a unit that was
\* waiting for its storage.
C9_Witness ==
    /\ inv.handler = "start_ue"
    /\ inv.raised = "push"
    /\ inv.pre.status = WaitingStatus("Waiting for storage to be attached")
    /\ status = inv.pre.status
    /\ ~ue_running

\* C10: a reconciliation never sets Active while a file this charm wrote has
\* had no layer applied (and, for a running service, no restart) since: the
\* reconciliation after a failed add_layer or restart applies the layer.
C10_UnfinishedApplyIsRetried ==
    (ReconcileReturned /\ status.kind = "Active") => ~unfinished

\* The calls of the _configure step in a call record, in the order made.
ReconcileCalls(calls) ==
    LET IsReconcile(c) == c.op \in ReconcileOps
    IN  SelectSeq(calls, IsReconcile)

\* The operations of a sequence of calls.
OpsOf(calls) == [i \in 1..Len(calls) |-> calls[i].op]

CanConnectCall == [op |-> "can_connect", target |-> "uesim", text |-> NoText, combine |-> FALSE]

StorageProbe == [op |-> "exists", target |-> "/etc", text |-> NoText, combine |-> FALSE]

RenderingCall ==
    [op |-> "render", target |-> "ue-config.yaml.j2", text |-> NoText, combine |-> FALSE]

FileProbe == [op |-> "exists", target |-> "/etc/ue.yaml", text |-> NoText, combine |-> FALSE]

\* C11: the checks of a reconciliation come in a fixed order and each ends
\* the _configure step: an invalid configuration sets Blocked, whatever the
\* container and the storage, with no probe made; an unreachable container
\* sets the container Waiting status with can_connect as the only call (the
\* storage path is not probed); an absent storage sets the storage Waiting
\* status after can_connect and exists("/etc") only; rendering and the file
\* comparison come only after these two probes and in that order.
C11_ChecksInOrder ==
    Reconciled =>
        LET r == ReconcileCalls(inv.calls)
        IN  /\ ~Valid => (status.kind = "Blocked" /\ r = <<>>)
            /\ (Valid /\ ~can_connect) =>
                   /\ status = WaitingStatus("Waiting for container to be ready")
                   /\ r = <<CanConnectCall>>
            /\ (Valid /\ can_connect /\ ~storage) =>
                   /\ status = WaitingStatus("Waiting for storage to be attached")
                   /\ r = <<CanConnectCall, StorageProbe>>
            /\ (Valid /\ can_connect /\ storage) =>
                   /\ Len(r) >= 3
                   /\ SubSeq(r, 1, 3) = <<CanConnectCall, StorageProbe, RenderingCall>>
                   /\ inv.raised # "render" =>
                          (Len(r) >= 4 /\ r[4] = FileProbe)
            /\ \A i \in 1..Len(r) :
                   r[i].op \in {"render", "pull", "push", "get_plan", "add_layer", "restart"}
                       => (Valid /\ can_connect /\ storage /\ i >= 3)

\* C11 witness: sst = 0 on a unit that was waiting for its unreachable
\* container, the storage absent too: Blocked, and no call made.
C11_Witness ==
    /\ inv.handler = "config_changed"
    /\ config = ConfigSstZero
    /\ ~can_connect /\ ~storage
    /\ inv.pre.status = WaitingStatus("Waiting for container to be ready")
    /\ status = BlockedStatus(<<"sst">>)
    /\ inv.calls = <<>>

RestartCommand == [op |-> "restart", target |-> "uesim", text |-> NoText, combine |-> FALSE]

\* C12: in every invocation a restart is issued only with the run flag set
\* and only directly after an add_layer of the same invocation; when the
\* file differs and the flag is set, exactly one restart is issued once the
\* layer is applied; when the flag is not set, the file is written and the
\* layer applied with no restart.
C12_RestartOnlyWhenRunning ==
    /\ \A i \in 1..Len(inv.calls) :
           inv.calls[i].op = "restart" =>
               /\ inv.pre.ue_running
               /\ inv.calls[i] = RestartCommand
               /\ i > 1
               /\ inv.calls[i - 1].op = "add_layer"
    /\ (Compared /\ ~FoundMatching /\ inv.raised \notin {"render", "push", "add_layer"}) =>
           /\ OpsOf(WritesAndApplies(inv.calls)) = <<"push", "add_layer">>
           /\ Commands(inv.calls, "restart") =
                  IF inv.pre.ue_running THEN <<RestartCommand>> ELSE <<>>

\* C12 witness: after a stop-ue the configuration changes; the file is
\* rewritten and the layer applied, and no restart is issued.
C12_Witness ==
    /\ inv.handler = "config_changed"
    /\ lastCmd = "stop"
    /\ ~inv.pre.ue_running
    /\ inv.pre.file.exists
    /\ inv.raised = "none"
    /\ OpsOf(WritesAndApplies(inv.calls)) = <<"push", "add_layer">>
    /\ ~HasOp(inv.calls, "restart")
    /\ status = ActiveStatus

\* The services of a plan other than the charm's own.
OtherServices(p) ==
    [n \in (DOMAIN p.services) \ {uesim_service_name} |-> p.services[n]]

\* C13: no handler adds, removes or changes a service of the plan other than
\* uesim, every add_layer is made with combine, and every start, stop and
\* restart names the service uesim.
C13_OtherServicesUntouched ==
    inv.handler # "none" =>
        /\ DOMAIN OtherServices(plan) = DOMAIN OtherServices(inv.pre.plan)
        /\ \A n \in DOMAIN OtherServices(plan) :
               plan.services[n] = inv.pre.plan.services[n]
        /\ \A i \in 1..Len(inv.calls) :
               /\ inv.calls[i].op \in {"start", "stop", "restart"} =>
                      inv.calls[i].target = "uesim"
               /\ inv.calls[i].op = "add_layer" =>
                      (inv.calls[i].target = "uesim" /\ inv.calls[i].combine)

\* C13 witness: the layer is applied to a plan that holds another service,
\* which is still there, unchanged, beside uesim.
C13_Witness ==
    /\ inv.handler = "start_ue"
    /\ inv.pre.plan = OtherPlan
    /\ HasOp(inv.calls, "add_layer")
    /\ HasOp(inv.calls, "start")
    /\ inv.raised = "none"
    /\ DOMAIN plan.services = {"other", "uesim"}
    /\ plan.services["other"] = OtherService
    /\ plan.services["uesim"] = UesimService

\* A config-changed event whose handler returns: no call of it raises.
FaultFreeReconcile == ConfigChanged /\ inv'.raised = "none"

\* The events and changes convergence depends on: the operator's options,
\* the container, the storage, and the config-changed event.
NextConverge ==
    \/ ConfigChanged
    \/ SetConfig
    \/ ContainerFlips
    \/ StorageFlips

\* Juju delivers events one at a time and keeps delivering config-changed:
\* a reconciliation that would change something is not postponed forever.
SpecFair == Init /\ [][NextConverge]_vars /\ WF_vars(FaultFreeReconcile)

\* The status a reconciliation derives from what it reads, and from nothing
\* else.
ExpectedStatus ==
    IF ~Valid THEN BlockedStatus(MissingInOrder(config))
    ELSE IF ~can_connect THEN WaitingStatus("Waiting for container to be ready")
    ELSE IF ~storage THEN WaitingStatus("Waiting for storage to be attached")
    ELSE ActiveStatus

\* From some point on the configuration is valid, the container reachable,
\* the storage present, and no call raises.
Settled == Valid /\ can_connect /\ storage /\ inv.raised = "none"

\* C14: the status a returning reconciliation sets depends only on the
\* configuration, the container and the storage it reads, never on the
\* status before; and if from some point on the configuration is valid, the
\* container reachable with its storage and no call raises, then the status
\* becomes Active and stays Active.
C14_Converges ==
    /\ [](ReconcileReturned => status = ExpectedStatus)
    /\ <>[]Settled => <>[](status = ActiveStatus)

\* C14 witness: a unit Blocked by an earlier configuration is reconciled with
\* a valid one and becomes Active.
C14_Witness ==
    /\ inv.handler = "config_changed"
    /\ inv.pre.status = BlockedStatus(<<"sst">>)
    /\ Settled
    /\ status = ActiveStatus

\* The number of times the last invocation logged the message.
Signals(message) ==
    LET IsSignal(c) == c.op = "log" /\ c.target = message
    IN  Len(SelectSeq(inv.calls, IsSignal))

\* The last invocation was a start-ue that set the flag it found clear.
FlippedOn == inv.handler = "start_ue" /\ ~inv.pre.ue_running /\ ue_running

\* The last invocation was a stop-ue that cleared the flag it found set.
FlippedOff == inv.handler = "stop_ue" /\ inv.pre.ue_running /\ ~ue_running

\* C15: an invocation logs "Started UE service" once if it is a start-ue that
\* turned the flag from false to true, and not at all otherwise (a start-ue
\* that found the flag true, a start-ue whose command raised, any other
\* handler); likewise "Stopped UE service" is logged once by a stop-ue that
\* turned the flag from true to false, and not at all otherwise.
C15_SignalOncePerTransition ==
    /\ Signals("Started UE service") = IF FlippedOn THEN 1 ELSE 0
    /\ Signals("Stopped UE service") = IF FlippedOff THEN 1 ELSE 0

\* C15 witness: a start-ue that finds the flag already set logs that it is
\* starting, and does not log that it started.
C15_Witness ==
    /\ inv.handler = "start_ue"
    /\ inv.raised = "none"
    /\ inv.pre.ue_running
    /\ Signals("Starting UE service") = 1
    /\ Signals("Started UE service") = 0

\* The last invocation's _configure step returned having set Blocked or
\* Waiting.
ReconcileRefused == ReconcileReturned /\ status.kind \in {"Blocked", "Waiting"}

\* C16: a start-ue or stop-ue whose reconciliation returns with Blocked or
\* Waiting writes no file, applies no layer and restarts nothing, and still
\* takes its lifecycle step: with the flag false, start-ue issues the one
\* start of uesim and, when the command returns, sets the flag; with the flag
\* true, stop-ue issues the one stop of uesim and, when the command returns,
\* clears the flag.
C16_LifecycleIgnoresReconcile ==
    /\ (inv.handler = "start_ue" /\ ReconcileRefused /\ ~inv.pre.ue_running) =>
            /\ NoWriteApplyRestart
            /\ file = inv.pre.file /\ plan = inv.pre.plan
            /\ Commands(inv.calls, "start") = <<StartCommand>>
            /\ inv.raised = "none" => ue_running /\ lastCmd = "start"
    /\ (inv.handler = "stop_ue" /\ ReconcileRefused /\ inv.pre.ue_running) =>
            /\ NoWriteApplyRestart
            /\ file = inv.pre.file /\ plan = inv.pre.plan
            /\ Commands(inv.calls, "stop") = <<StopCommand>>
            /\ inv.raised = "none" => ~ue_running /\ lastCmd = "stop"

\* C16 witness: a start-ue on a unit with an incomplete configuration sets
\* Blocked and starts the service.
C16_Witness ==
    /\ inv.handler = "start_ue"
    /\ ~Valid
    /\ status.kind = "Blocked"
    /\ ~inv.pre.ue_running
    /\ inv.raised = "none"
    /\ Commands(inv.calls, "start") = <<StartCommand>>
    /\ ue_running

\* C17: after every invocation, returned or raised, the flag is true exactly
\* when the last start or stop command the supervisor executed was a start
\* (false when it has executed none); a start-ue whose start command raises
\* leaves the flag false, and a stop-ue whose stop command raises leaves it
\* true.
C17_FlagFollowsExecutedCommand ==
    /\ ue_running <=> lastCmd = "start"
    /\ inv.raised = "start" => ~inv.pre.ue_running /\ ~ue_running
    /\ inv.raised = "stop" => inv.pre.ue_running /\ ue_running

\* C17 witness: a stop-ue on a running unit whose stop command raises; the
\* flag stays set and the last executed command is still the start.
C17_Witness ==
    /\ inv.handler = "stop_ue"
    /\ inv.raised = "stop"
    /\ Commands(inv.calls, "stop") = <<StopCommand>>
    /\ ue_running
    /\ lastCmd = "start"

\* The push of the rendered text to the managed path.
RenderedPush == [op |-> "push", target |-> ConfigFilePath, text |-> Rendered, combine |-> FALSE]

\* C18: when a reconciliation has set Active, the managed file exists at the
\* end of the invocation and holds the text rendered from the configuration
\* the invocation read: either the file found already held it and nothing
\* was pushed, or the invocation made one push, of that text.
C18_ActiveImpliesFileCurrent ==
    (ReconcileReturned /\ status = ActiveStatus) =>
        /\ Valid
        /\ file = FileWith(Rendered)
        /\ Commands(inv.calls, "push") =
               IF FoundMatching THEN <<>> ELSE <<RenderedPush>>

\* C18 witness: a reconciliation that finds a file with other content
\* overwrites it once and sets Active.
C18_Witness ==
    /\ inv.handler = "config_changed"
    /\ inv.raised = "none"
    /\ inv.pre.file = ForeignFile
    /\ status = ActiveStatus
    /\ Commands(inv.calls, "push") = <<RenderedPush>>
    /\ file = FileWith(Rendered)

====
